---- MODULE Spec2Model ----
(***************************************************************************)
(* korea-stock-mcp (index.js): the six extractors over the provider's      *)
(* pages and the numeric-text normaliser they share.                       *)
(*                                                                         *)
(* Text is a sequence of symbols.  A symbol is one character ("{", "1",    *)
(* ",", " ") or a word standing for a run of letters that holds no brace,  *)
(* quote, digit, comma, sign or whitespace ("success", "itemname").        *)
(* "NBSP" and "IDSP" are the characters U+00A0 and U+3000.                 *)
(***************************************************************************)
EXTENDS Integers, Sequences, FiniteSets, TLC

VARIABLES op, arg, ret, requests

vars == <<op, arg, ret, requests>>

(* ------------------------------ bounds -------------------------------- *)

MaxTextLen == 3
MaxLimit == 2
MaxItems == 2
MaxRows == 3
MaxNodes == 3

(* ------------------------------ values -------------------------------- *)

Null == [t |-> "null"]
Undefined == [t |-> "undefined"]
NaN == [t |-> "NaN"]
Num(n) == [t |-> "num", n |-> n]
Str(s) == [t |-> "str", s |-> s]

Texts(S, n) == UNION {[1..k -> S] : k \in 0..n}

(* ------------------------------- text --------------------------------- *)

\* The characters String.prototype.trim and the regex class \s remove.
WhiteSpace == {" ", "\t", "\n", "NBSP", "IDSP"}

\* The double quote character
Q == "\""

Digits == {"0", "1", "2", "3", "4", "5", "6", "7", "8", "9"}

DigitVal(c) ==
  CASE c = "0" -> 0 [] c = "1" -> 1 [] c = "2" -> 2 [] c = "3" -> 3
    [] c = "4" -> 4 [] c = "5" -> 5 [] c = "6" -> 6 [] c = "7" -> 7
    [] c = "8" -> 8 [] c = "9" -> 9

DigitChar(d) ==
  CASE d = 0 -> "0" [] d = 1 -> "1" [] d = 2 -> "2" [] d = 3 -> "3"
    [] d = 4 -> "4" [] d = 5 -> "5" [] d = 6 -> "6" [] d = 7 -> "7"
    [] d = 8 -> "8" [] d = 9 -> "9"

RECURSIVE TrimLeft(_)
TrimLeft(s) ==
  IF s # <<>> /\ Head(s) \in WhiteSpace THEN TrimLeft(Tail(s)) ELSE s

RECURSIVE TrimRight(_)
TrimRight(s) ==
  IF s # <<>> /\ s[Len(s)] \in WhiteSpace
  THEN TrimRight(SubSeq(s, 1, Len(s) - 1))
  ELSE s

\* String.prototype.trim
trim(s) == TrimRight(TrimLeft(s))

\* s.replace(/c/g, "") for every character c of the set
RemoveAll(s, set) == SelectSeq(s, LAMBDA c : c \notin set)

\* s.indexOf(c) and s.lastIndexOf(c), 1-based; 0 stands for JavaScript's -1
indexOf(s, c) ==
  IF \E i \in 1..Len(s) : s[i] = c
  THEN CHOOSE i \in 1..Len(s) : s[i] = c /\ \A j \in 1..(i - 1) : s[j] # c
  ELSE 0

lastIndexOf(s, c) ==
  IF \E i \in 1..Len(s) : s[i] = c
  THEN CHOOSE i \in 1..Len(s) : s[i] = c /\ \A j \in (i + 1)..Len(s) : s[j] # c
  ELSE 0

\* s.includes(sub)
includes(s, sub) ==
  \E i \in 1..(Len(s) - Len(sub) + 1) : SubSeq(s, i, i + Len(sub) - 1) = sub

(* ------------------------- numbers and text --------------------------- *)

RECURSIVE DecimalValue(_)
DecimalValue(ds) ==
  IF ds = <<>> THEN 0
  ELSE 10 * DecimalValue(SubSeq(ds, 1, Len(ds) - 1)) + DigitVal(ds[Len(ds)])

AllDigits(s) == \A i \in 1..Len(s) : s[i] \in Digits

\* Number(string): ECMAScript StringToNumber on the characters of this
\* model: whitespace is trimmed, the empty string is 0, an optionally signed
\* run of decimal digits is its value, anything else is NaN.  (Texts with
\* ".", an exponent, a radix prefix or "Infinity" are not among the inputs.)
Number(s) ==
  LET t == trim(s)
      signed == t # <<>> /\ Head(t) \in {"-", "+"}
      body == IF signed THEN Tail(t) ELSE t
  IN IF t = <<>> THEN Num(0)
     ELSE IF body # <<>> /\ AllDigits(body)
          THEN Num(IF signed /\ Head(t) = "-"
                   THEN 0 - DecimalValue(body)
                   ELSE DecimalValue(body))
          ELSE NaN

RECURSIVE NatToText(_)
NatToText(n) ==
  IF n < 10 THEN <<DigitChar(n)>>
  ELSE NatToText(n \div 10) \o <<DigitChar(n % 10)>>

\* String(number) for an integer
IntToText(n) == IF n < 0 THEN <<"-">> \o NatToText(0 - n) ELSE NatToText(n)

\* index.js 36-41
parseKoreanNumber(text) ==
  IF text = <<>> THEN Null
  ELSE LET cleaned == RemoveAll(RemoveAll(text, {","}), WhiteSpace)
           num == Number(cleaned)
       IN IF num = NaN THEN Null ELSE num

(* ------------------------------- JSON --------------------------------- *)

Bool(b) == [t |-> "bool", b |-> b]
Arr(elems) == [t |-> "arr", e |-> elems]
\* An object is its members in source order, each <<key text, value>>.
Obj(members) == [t |-> "obj", m |-> members]

\* The whitespace JSON allows between tokens (U+00A0 and U+3000 are not).
JsonWS == {" ", "\t", "\n"}

RECURSIVE SkipWS(_)
SkipWS(s) == IF s # <<>> /\ Head(s) \in JsonWS THEN SkipWS(Tail(s)) ELSE s

Fail == [ok |-> FALSE]
Parsed(v, rest) == [ok |-> TRUE, val |-> v, rest |-> rest]

\* The digits at the head of s
RECURSIVE DigitRun(_)
DigitRun(s) ==
  IF s # <<>> /\ Head(s) \in Digits THEN <<Head(s)>> \o DigitRun(Tail(s)) ELSE <<>>

\* A JSON string body: up to the closing quote; a raw control character is
\* a syntax error.
ParseString(s) ==
  LET close == indexOf(s, "\"")
      body == SubSeq(s, 1, close - 1)
  IN IF close = 0 \/ \E i \in 1..Len(body) : body[i] \in {"\t", "\n"}
     THEN Fail
     ELSE Parsed(Str(body), SubSeq(s, close + 1, Len(s)))

\* A JSON number of this model: -? (0 | [1-9][0-9]*)
ParseNumber(s) ==
  LET neg == s # <<>> /\ Head(s) = "-"
      t == IF neg THEN Tail(s) ELSE s
      ds == DigitRun(t)
  IN IF ds = <<>> \/ (Len(ds) > 1 /\ Head(ds) = "0")
     THEN Fail
     ELSE Parsed(Num(IF neg THEN 0 - DecimalValue(ds) ELSE DecimalValue(ds)),
                 SubSeq(t, Len(ds) + 1, Len(t)))

RECURSIVE ParseValue(_), ParseMembers(_, _), ParseElements(_, _)

\* One JSON value with the whitespace around it.
ParseValue(s0) ==
  LET s == SkipWS(s0)
  IN IF s = <<>> THEN Fail
     ELSE LET c == Head(s)
              r == CASE c = "{" ->
                          IF SkipWS(Tail(s)) # <<>> /\ Head(SkipWS(Tail(s))) = "}"
                          THEN Parsed(Obj(<<>>), Tail(SkipWS(Tail(s))))
                          ELSE ParseMembers(Tail(s), <<>>)
                     [] c = "[" ->
                          IF SkipWS(Tail(s)) # <<>> /\ Head(SkipWS(Tail(s))) = "]"
                          THEN Parsed(Arr(<<>>), Tail(SkipWS(Tail(s))))
                          ELSE ParseElements(Tail(s), <<>>)
                     [] c = "\"" -> ParseString(Tail(s))
                     [] c = "null" -> Parsed(Null, Tail(s))
                     [] c = "true" -> Parsed(Bool(TRUE), Tail(s))
                     [] c = "false" -> Parsed(Bool(FALSE), Tail(s))
                     [] c = "-" \/ c \in Digits -> ParseNumber(s)
                     [] OTHER -> Fail
          IN IF r.ok THEN Parsed(r.val, SkipWS(r.rest)) ELSE Fail

\* member ("," member)* "}" after an opening brace
ParseMembers(s0, acc) ==
  LET s == SkipWS(s0)
  IN IF s = <<>> \/ Head(s) # "\"" THEN Fail
     ELSE LET k == ParseString(Tail(s))
          IN IF ~k.ok THEN Fail
             ELSE LET t == SkipWS(k.rest)
                  IN IF t = <<>> \/ Head(t) # ":" THEN Fail
                     ELSE LET v == ParseValue(Tail(t))
                          IN IF ~v.ok \/ v.rest = <<>> THEN Fail
                             ELSE LET acc2 == Append(acc, <<k.val.s, v.val>>)
                                  IN IF Head(v.rest) = "}"
                                     THEN Parsed(Obj(acc2), Tail(v.rest))
                                     ELSE IF Head(v.rest) = ","
                                          THEN ParseMembers(Tail(v.rest), acc2)
                                          ELSE Fail

\* value ("," value)* "]" after an opening bracket
ParseElements(s, acc) ==
  LET v == ParseValue(s)
  IN IF ~v.ok \/ v.rest = <<>> THEN Fail
     ELSE LET acc2 == Append(acc, v.val)
          IN IF Head(v.rest) = "]"
             THEN Parsed(Arr(acc2), Tail(v.rest))
             ELSE IF Head(v.rest) = ","
                  THEN ParseElements(Tail(v.rest), acc2)
                  ELSE Fail

\* JSON.parse(text): the value, or a SyntaxError (ok = FALSE)
JSONparse(text) ==
  LET r == ParseValue(text)
  IN IF r.ok /\ r.rest = <<>> THEN [ok |-> TRUE, val |-> r.val] ELSE Fail

\* obj[key] for an object: the last member of that key wins, as in JSON.parse
Get(obj, key) ==
  LET hits == {i \in 1..Len(obj.m) : obj.m[i][1] = key}
  IN IF hits = {} THEN Undefined
     ELSE obj.m[CHOOSE i \in hits : \A j \in hits : j <= i][2]

\* v[key] for a property no primitive and no array has
Prop(v, key) == IF v.t = "obj" THEN Get(v, key) ELSE Undefined

\* v == null
IsNullish(v) == v.t \in {"null", "undefined"}

RECURSIVE ToText(_), Join(_)
\* String(v)
ToText(v) ==
  CASE v.t = "str" -> v.s
    [] v.t = "num" -> IntToText(v.n)
    [] v.t = "bool" -> IF v.b THEN <<"true">> ELSE <<"false">>
    [] v.t = "null" -> <<"null">>
    [] v.t = "undefined" -> <<"undefined">>
    [] v.t = "obj" -> <<"[object Object]">>
    [] v.t = "arr" -> Join(v.e)

\* Array.prototype.join(","): null and undefined elements are empty
Join(es) ==
  IF es = <<>> THEN <<>>
  ELSE (IF IsNullish(Head(es)) THEN <<>> ELSE ToText(Head(es)))
       \o (IF Len(es) > 1 THEN <<",">> \o Join(Tail(es)) ELSE <<>>)

\* n.toFixed(2) for an integer
toFixed2(n) == IntToText(n) \o <<".", "0", "0">>

(* ----------------------- getEtfsByMarketCap --------------------------- *)

Throw(e) == [status |-> "error", error |-> e]

(* ----------------------------- retrieval ------------------------------ *)

\* Faulty variant: a response with a failure status is requested once more.
fetchHtmlRetrying(url, resOk) == IF resOk THEN <<url>> ELSE <<url, url>>

\* index.js 13-21: the retrievals one fetchHtml(url) issues, resOk being
\* res.ok of the response: the one fetch(url); with !res.ok it throws at once.
fetchHtml(url, resOk) == <<url>>

\* index.js 66-76: the retrievals the one axios.get(apiUrl, ...) issues; with
\* a status outside 2xx the awaited promise rejects and the call ends there.
axiosGet(url, resOk) == <<url>>

\* index.js 62-64
apiUrl(etfType, targetColumn, sortOrder) ==
  [path |-> "https://finance.naver.com/api/sise/etfItemList.nhn",
   etfType |-> etfType, targetColumn |-> targetColumn, sortOrder |-> sortOrder]

\* { raw: String(v ?? ""), value: typeof v === "number" ? v : null }
\* (index.js 104-141; nav's raw, v == null ? "" : String(v), is the same text)
EtfMeasured(v) ==
  [raw |-> IF IsNullish(v) THEN <<>> ELSE ToText(v),
   value |-> IF v.t = "num" THEN v ELSE Null]

\* v == null ? null : v.toFixed ? v.toFixed(2) : String(v)   (index.js 114-126)
EtfRate(v) ==
  IF IsNullish(v) THEN Null
  ELSE IF v.t = "num" THEN Str(toFixed2(v.n)) ELSE Str(ToText(v))

\* The record the map callback builds from one list element (index.js 97-143)
EtfRecord(etf) ==
  [name |-> Prop(etf, <<"itemname">>),
   code |-> Prop(etf, <<"itemcode">>),
   currentPrice |-> EtfMeasured(Prop(etf, <<"nowVal">>)),
   nav |-> EtfMeasured(Prop(etf, <<"nav">>)),
   changeRate |-> EtfRate(Prop(etf, <<"changeRate">>)),
   threeMonthReturn |-> EtfRate(Prop(etf, <<"threeMonthEarnRate">>)),
   volume |-> EtfMeasured(Prop(etf, <<"quant">>)),
   tradingValueMillion |-> EtfMeasured(Prop(etf, <<"amonut">>)),
   marketCapHundredMillion |-> EtfMeasured(Prop(etf, <<"marketSum">>))]

\* Faulty variant: the end index taken as inclusive, list.slice(0, limit + 1)
slice0Inclusive(es, limit) ==
  SubSeq(es, 1, IF limit + 1 < Len(es) THEN limit + 1 ELSE Len(es))

\* list.slice(0, limit) of an array, limit >= 0
slice0(es, limit) == SubSeq(es, 1, IF limit < Len(es) THEN limit ELSE Len(es))

\* json.result?.etfItemList ?? []   (index.js 95)
EtfList(json) ==
  LET result == Prop(json, <<"result">>)
      l == IF IsNullish(result) THEN Undefined ELSE Prop(result, <<"etfItemList">>)
  IN IF IsNullish(l) THEN Arr(<<>>) ELSE l

\* Faulty variant: elements without a name are filtered out before the slice
EtfItemsSkipUnnamed(url, list, limit) ==
  IF list.t # "arr" THEN Throw("TypeError")
  ELSE LET named == SelectSeq(list.e,
                              LAMBDA e : e.t # "obj"
                                         \/ (Get(e, <<"itemname">>).t = "str"
                                             /\ Get(e, <<"itemname">>).s # <<>>))
           cut == SubSeq(named, 1, IF limit < Len(named) THEN limit ELSE Len(named))
       IN IF \E i \in 1..Len(cut) : cut[i].t = "null"
          THEN Throw("TypeError")
          ELSE [status |-> "ok", url |-> url,
                items |-> [i \in 1..Len(cut) |-> EtfRecord(cut[i])]]

\* index.js 97-148: slice, map and the returned envelope.  slice or map of a
\* value that has none, and a property read of a null element, are TypeErrors.
EtfItems(url, list, limit) ==
  IF list.t # "arr" THEN Throw("TypeError")
  ELSE LET cut == slice0(list.e, limit)
       IN IF \E i \in 1..Len(cut) : cut[i].t = "null"
          THEN Throw("TypeError")
          ELSE [status |-> "ok", url |-> url,
                items |-> [i \in 1..Len(cut) |-> EtfRecord(cut[i])]]

\* Faulty variant: the slice runs to the end of the text, decoded.slice(firstBrace)
EtfJsonTextToEnd(decoded) ==
  LET firstBrace == indexOf(decoded, "{")
      lastBrace == lastIndexOf(decoded, "}")
  IN IF firstBrace = 0 \/ lastBrace = 0
     THEN [found |-> FALSE]
     ELSE [found |-> TRUE, text |-> SubSeq(decoded, firstBrace, Len(decoded))]

\* index.js 82-89: the text between the first "{" and the last "}"
EtfJsonText(decoded) ==
  LET firstBrace == indexOf(decoded, "{")
      lastBrace == lastIndexOf(decoded, "}")
  IN IF firstBrace = 0 \/ lastBrace = 0
     THEN [found |-> FALSE]
     ELSE [found |-> TRUE, text |-> SubSeq(decoded, firstBrace, lastBrace)]

\* Faulty variant: the resultCode of the envelope is not looked at
getEtfsByMarketCapResultNoStatus(resOk, body, limit, q) ==
  LET url == apiUrl(q.etfType, q.targetColumn, q.sortOrder)
      decoded == trim(body)
      jsonText == EtfJsonText(decoded)
  IN IF ~resOk THEN Throw("AxiosError")
     ELSE IF ~jsonText.found THEN Throw("no JSON in the response")
     ELSE LET json == JSONparse(jsonText.text)
          IN IF ~json.ok THEN Throw("SyntaxError")
             ELSE EtfItems(url, EtfList(json.val), limit)

\* index.js 55-149, from the response on: resOk is axios's verdict on the
\* status, body the response text as iconv decodes it.
getEtfsByMarketCapResult(resOk, body, limit, q) ==
  LET url == apiUrl(q.etfType, q.targetColumn, q.sortOrder)
      decoded == trim(body)
      jsonText == EtfJsonText(decoded)
  IN IF ~resOk THEN Throw("AxiosError")
     ELSE IF ~jsonText.found THEN Throw("no JSON in the response")
     ELSE LET json == JSONparse(jsonText.text)
          IN IF ~json.ok THEN Throw("SyntaxError")
             ELSE IF Prop(json.val, <<"resultCode">>) # Str(<<"success">>)
                  THEN Throw("ETF API error")
                  ELSE EtfItems(url, EtfList(json.val), limit)

(* --------------------------- parsed markup ---------------------------- *)

(* A page as cheerio parses it, for the listing extractors: the table rows  *)
(* of the document in document order.  A row is [table, cells]: the class   *)
(* of the table it stands in and its td children; a cell is [cls, nodes]:   *)
(* its classes and its descendants in order; a node is [tag, href, text],   *)
(* an anchor ("a"), a span or a text node, href being Undefined or          *)
(* Str(text).                                                               *)

\* $(row).find("td.<classes> a"): the anchors in the cells of those classes
CellAnchors(cell) == SelectSeq(cell.nodes, LAMBDA n : n.tag = "a")

RECURSIVE Flatten(_)
Flatten(ss) == IF ss = <<>> THEN <<>> ELSE Head(ss) \o Flatten(Tail(ss))

FindAnchors(cells, classes) ==
  Flatten([i \in 1..Len(cells) |->
             IF classes \subseteq cells[i].cls THEN CellAnchors(cells[i]) ELSE <<>>])

\* selection.first() as a selection of at most one element
first(sel) == IF sel = <<>> THEN <<>> ELSE <<Head(sel)>>

\* selection.text(): the texts of the selected elements, concatenated
textOf(sel) == Flatten([i \in 1..Len(sel) |-> sel[i].text])

\* selection.attr("href") || ""
hrefOrEmpty(sel) ==
  IF sel = <<>> \/ sel[1].href.t = "undefined" THEN <<>> ELSE sel[1].href.s

\* The text of a td: that of its descendants
CellText(cell) == textOf(cell.nodes)

\* tds.eq(i).text() with i counted from 0: empty beyond the last cell
eqText(cells, i) == IF i + 1 <= Len(cells) THEN CellText(cells[i + 1]) ELSE <<>>

CodeEq == <<"c", "o", "d", "e", "=">>
NoEq == <<"n", "o", "=">>

\* Where lit stands in s followed by at least n digits
LitDigitsAt(s, lit, n) ==
  {i \in 1..Len(s) :
     /\ i + Len(lit) + n - 1 <= Len(s)
     /\ SubSeq(s, i, i + Len(lit) - 1) = lit
     /\ AllDigits(SubSeq(s, i + Len(lit), i + Len(lit) + n - 1))}

Min(S) == CHOOSE x \in S : \A y \in S : x <= y

NoMatch == [found |-> FALSE]

\* Faulty variant: the pattern /code=(\d+)/, digits of any number
matchCodeAnyLength(s) ==
  LET at == LitDigitsAt(s, CodeEq, 1)
  IN IF at = {} THEN NoMatch
     ELSE [found |-> TRUE,
           group |-> DigitRun(SubSeq(s, Min(at) + Len(CodeEq), Len(s)))]

\* s.match(/code=(\d{6})/): the first match's group
matchCode(s) ==
  LET at == LitDigitsAt(s, CodeEq, 6)
  IN IF at = {} THEN NoMatch
     ELSE [found |-> TRUE,
           group |-> SubSeq(s, Min(at) + Len(CodeEq), Min(at) + Len(CodeEq) + 5)]

\* s.match(/no=(\d+)/): the first match's group, the longest run of digits
matchNo(s) ==
  LET at == LitDigitsAt(s, NoEq, 1)
  IN IF at = {} THEN NoMatch
     ELSE [found |-> TRUE,
           group |-> DigitRun(SubSeq(s, Min(at) + Len(NoEq), Len(s)))]

\* m ? m[1] : null
GroupOrNull(m) == IF m.found THEN Str(m.group) ELSE Null

\* index.js 13-31: the request fails on a status outside the success range
FetchFailed == Throw("Fetch failed")

(* ------------------------ getThemesWithLeaders ------------------------- *)

ThemeUrl == [path |-> "https://finance.naver.com/sise/theme.naver"]

\* index.js 163-191: one row's record
ThemeRecord(row) ==
  LET themeAnchor == first(FindAnchors(row.cells, {"col_type1"}))
      cells2 == SelectSeq(row.cells, LAMBDA c : "col_type2" \in c.cls)
      spans == Flatten([i \in 1..Len(cells2) |->
                          SelectSeq(cells2[i].nodes, LAMBDA n : n.tag = "span")])
      leadersTd == IF row.cells = <<>> THEN <<>>
                   ELSE CellAnchors(row.cells[Len(row.cells)])
      names == [i \in 1..Len(leadersTd) |-> trim(leadersTd[i].text)]
  IN [themeName |-> trim(textOf(themeAnchor)),
      themeId |-> GroupOrNull(matchNo(hrefOrEmpty(themeAnchor))),
      changeRate |-> trim(textOf(spans)),
      leaders |-> SelectSeq(names, LAMBDA n : n # <<>>)]

RECURSIVE ThemeEach(_, _, _)
\* index.js 162-194: $("table tbody tr").each(...)
ThemeEach(rows, items, limit) ==
  IF rows = <<>> THEN items
  ELSE LET rec == ThemeRecord(Head(rows))
       IN IF rec.themeName = <<>> THEN ThemeEach(Tail(rows), items, limit)
          ELSE LET pushed == Append(items, rec)
               IN IF Len(pushed) >= limit THEN pushed
                  ELSE ThemeEach(Tail(rows), pushed, limit)

\* index.js 156-197
getThemesWithLeadersResult(resOk, rows, limit) ==
  IF ~resOk THEN FetchFailed
  ELSE [status |-> "ok", url |-> ThemeUrl, items |-> ThemeEach(rows, <<>>, limit)]

(* ------------------------- getMarketCapStocks -------------------------- *)

MarketCapUrl(sosok, page) ==
  [path |-> "https://finance.naver.com/sise/sise_market_sum.naver",
   sosok |-> sosok, page |-> page]

\* td:nth-child(k) of a row whose children are its cells
nthChild(cells, k) == IF k <= Len(cells) THEN <<cells[k]>> ELSE <<>>

\* index.js 212-232: one row's record
MarketCapRecord(row) ==
  LET td2 == nthChild(row.cells, 2)
      nameAnchor == first(IF td2 = <<>> THEN <<>> ELSE CellAnchors(td2[1]))
      td3 == nthChild(row.cells, 3)
      currentPriceText == trim(IF td3 = <<>> THEN <<>> ELSE CellText(td3[1]))
  IN [name |-> trim(textOf(nameAnchor)),
      code |-> GroupOrNull(matchCode(hrefOrEmpty(nameAnchor))),
      currentPrice |-> [raw |-> currentPriceText,
                        value |-> parseKoreanNumber(currentPriceText)]]

RECURSIVE MarketCapEach(_, _, _)
\* index.js 211-235: $("table.type_2 tbody tr").each(...)
MarketCapEach(rows, items, limit) ==
  IF rows = <<>> THEN items
  ELSE LET rec == MarketCapRecord(Head(rows))
       IN IF rec.name = <<>> THEN MarketCapEach(Tail(rows), items, limit)
          ELSE LET pushed == Append(items, rec)
               IN IF Len(pushed) >= limit THEN pushed
                  ELSE MarketCapEach(Tail(rows), pushed, limit)

\* index.js 201-238
getMarketCapStocksResult(resOk, rows, sosok, page, limit) ==
  IF ~resOk THEN FetchFailed
  ELSE [status |-> "ok", url |-> MarketCapUrl(sosok, page),
        items |-> MarketCapEach(SelectSeq(rows, LAMBDA r : "type_2" \in r.table),
                                <<>>, limit),
        sosok |-> sosok, page |-> page]

(* ----------------------- getDividendYieldStocks ------------------------ *)

DividendUrl(page) ==
  [path |-> "https://finance.naver.com/sise/dividend_list.naver", page |-> page]

\* index.js 250-282: one row's record
DividendRecord(row) ==
  LET nameAnchor == first(FindAnchors(row.cells, {"txt", "frst"}))
      currentPriceText == trim(eqText(row.cells, 1))
      dividendText == trim(eqText(row.cells, 3))
  IN [name |-> trim(textOf(nameAnchor)),
      code |-> GroupOrNull(matchCode(hrefOrEmpty(nameAnchor))),
      currentPrice |-> [raw |-> currentPriceText,
                        value |-> parseKoreanNumber(currentPriceText)],
      baseMonth |-> trim(eqText(row.cells, 2)),
      dividend |-> [raw |-> dividendText,
                    value |-> parseKoreanNumber(dividendText)],
      dividendYield |-> trim(eqText(row.cells, 4)),
      payoutRatio |-> trim(eqText(row.cells, 5))]

RECURSIVE DividendEachCountsBlank(_, _, _, _)
\* Faulty variant: every row visited, blank or not, uses up one slot of the limit
DividendEachCountsBlank(rows, items, limit, seen) ==
  IF rows = <<>> \/ seen >= limit THEN items
  ELSE LET rec == DividendRecord(Head(rows))
       IN DividendEachCountsBlank(Tail(rows),
                                  IF rec.name = <<>> THEN items ELSE Append(items, rec),
                                  limit, seen + 1)

DividendEachBlankCounted(rows, items, limit) ==
  DividendEachCountsBlank(rows, items, limit, 0)

RECURSIVE DividendEach(_, _, _)
\* index.js 248-285: $("table.tb_ty tbody tr").each(...)
DividendEach(rows, items, limit) ==
  IF rows = <<>> THEN items
  ELSE LET rec == DividendRecord(Head(rows))
       IN IF rec.name = <<>> THEN DividendEach(Tail(rows), items, limit)
          ELSE LET pushed == Append(items, rec)
               IN IF Len(pushed) >= limit THEN pushed
                  ELSE DividendEach(Tail(rows), pushed, limit)

\* index.js 242-288
getDividendYieldStocksResult(resOk, rows, page, limit) ==
  IF ~resOk THEN FetchFailed
  ELSE [status |-> "ok", url |-> DividendUrl(page),
        items |-> DividendEach(SelectSeq(rows, LAMBDA r : "tb_ty" \in r.table),
                               <<>>, limit),
        page |-> page]

(* ------------------------ searchStockCodeByName ------------------------ *)

(* A page for the search and price extractors: its nodes in document order, *)
(* each [tag, href, text, ctx].  ctx places the node: "company" inside an   *)
(* h2 of div.wrap_company (adjacent company nodes share one h2), "no_today" *)
(* a span.blind inside p.no_today, "now_value" the span#now_value, "body"   *)
(* anywhere else.                                                           *)

ItemMain == <<"/item/main.naver?">>

\* encodeURIComponent: a space and a Hangul syllable ("KO") are escaped
encodeURIComponent(s) ==
  Flatten([i \in 1..Len(s) |->
             CASE s[i] = " " -> <<"%", "2", "0">>
               [] s[i] = "KO" -> <<"%EC%82%BC">>
               [] OTHER -> <<s[i]>>])

SearchUrl(query) ==
  [path |-> "https://finance.naver.com/search/search.naver",
   query |-> encodeURIComponent(query), encoding |-> "UTF-8"]

\* The markup of one node, as $.html() writes it
NodeHtml(n) ==
  CASE n.tag = "a" ->
         (IF n.href.t = "undefined" THEN <<"<a>">>
          ELSE <<"<a href=", Q>> \o n.href.s \o <<Q, ">">>)
         \o n.text \o <<"</a>">>
    [] n.tag = "span" -> <<"<span>">> \o n.text \o <<"</span>">>
    [] OTHER -> n.text

\* $.html(): the nodes' markup in document order, each h2 around its nodes
Html(doc) ==
  Flatten([i \in 1..Len(doc) |->
             (IF doc[i].ctx = "company" /\ (i = 1 \/ doc[i - 1].ctx # "company")
              THEN <<"<h2>">> ELSE <<>>)
             \o NodeHtml(doc[i])
             \o (IF doc[i].ctx = "company"
                    /\ (i = Len(doc) \/ doc[i + 1].ctx # "company")
                 THEN <<"</h2>">> ELSE <<>>)])

\* $("div.wrap_company h2 a")
CompanyAnchors(doc) ==
  SelectSeq(doc, LAMBDA n : n.ctx = "company" /\ n.tag = "a")

\* $("div.wrap_company h2"): each h2 as one element whose text is its nodes'
CompanyH2s(doc) ==
  LET starts == {i \in 1..Len(doc) :
                   doc[i].ctx = "company" /\ (i = 1 \/ doc[i - 1].ctx # "company")}
      EndOf(i) == Min({j \in i..Len(doc) :
                         j = Len(doc) \/ doc[j + 1].ctx # "company"})
      H2(i) == [text |-> textOf(SubSeq(doc, i, EndOf(i)))]
      RECURSIVE InOrder(_)
      InOrder(S) == IF S = {} THEN <<>>
                    ELSE <<H2(Min(S))>> \o InOrder(S \ {Min(S)})
  IN InOrder(starts)

\* a || b on texts
OrElse(a, b) == IF a # <<>> THEN a ELSE b

\* Faulty variant: the whole-document scan runs whether or not stage 1 found a code
searchAlwaysFallback(resOk, doc, query) ==
  LET url == SearchUrl(query)
      anchors == SelectSeq(doc, LAMBDA n : n.tag = "a")
      firstItemLink ==
        first(SelectSeq(anchors,
                        LAMBDA a : includes(hrefOrEmpty(<<a>>), ItemMain \o CodeEq)))
      name1 == trim(textOf(firstItemLink))
      code1 == GroupOrNull(matchCode(hrefOrEmpty(firstItemLink)))
      fallbackMatch == matchCode(Html(doc))
      titleName == OrElse(trim(textOf(first(CompanyAnchors(doc)))),
                          trim(textOf(first(CompanyH2s(doc)))))
      code == IF fallbackMatch.found THEN Str(fallbackMatch.group) ELSE code1
      name == IF fallbackMatch.found THEN OrElse(titleName, query) ELSE name1
  IN IF ~resOk THEN FetchFailed
     ELSE IF code = Null
          THEN [status |-> "ok", url |-> url, result |-> Null,
                message |-> "no stock code in the search result"]
          ELSE [status |-> "ok", url |-> url,
                result |-> [name |-> OrElse(name, query), code |-> code.s]]

\* Faulty variant: the fallback keeps the name stage 1 read from its anchor
searchKeepsAnchorName(resOk, doc, query) ==
  LET url == SearchUrl(query)
      anchors == SelectSeq(doc, LAMBDA n : n.tag = "a")
      firstItemLink ==
        first(SelectSeq(anchors,
                        LAMBDA a : includes(hrefOrEmpty(<<a>>), ItemMain \o CodeEq)))
      name1 == trim(textOf(firstItemLink))
      code1 == GroupOrNull(matchCode(hrefOrEmpty(firstItemLink)))
      fallbackMatch == matchCode(Html(doc))
      code == IF code1 = Null /\ fallbackMatch.found
              THEN Str(fallbackMatch.group) ELSE code1
  IN IF ~resOk THEN FetchFailed
     ELSE IF code = Null
          THEN [status |-> "ok", url |-> url, result |-> Null,
                message |-> "no stock code in the search result"]
          ELSE [status |-> "ok", url |-> url,
                result |-> [name |-> OrElse(name1, query), code |-> code.s]]

\* index.js 291-338
searchStockCodeByNameResult(resOk, doc, query) ==
  LET url == SearchUrl(query)
      anchors == SelectSeq(doc, LAMBDA n : n.tag = "a")
      firstItemLink ==
        first(SelectSeq(anchors,
                        LAMBDA a : includes(hrefOrEmpty(<<a>>), ItemMain \o CodeEq)))
      name1 == trim(textOf(firstItemLink))
      code1 == GroupOrNull(matchCode(hrefOrEmpty(firstItemLink)))
      fallbackMatch == matchCode(Html(doc))
      titleName == OrElse(trim(textOf(first(CompanyAnchors(doc)))),
                          trim(textOf(first(CompanyH2s(doc)))))
      code == IF code1 = Null /\ fallbackMatch.found
              THEN Str(fallbackMatch.group) ELSE code1
      name == IF code1 = Null /\ fallbackMatch.found
              THEN OrElse(titleName, query) ELSE name1
  IN IF ~resOk THEN FetchFailed
     ELSE IF code = Null
          THEN [status |-> "ok", url |-> url, result |-> Null,
                message |-> "no stock code in the search result"]
          ELSE [status |-> "ok", url |-> url,
                result |-> [name |-> OrElse(name, query), code |-> code.s]]

(* ------------------------- getStockPriceByCode ------------------------- *)

PriceUrl(code) ==
  [path |-> "https://finance.naver.com/item/main.naver", code |-> code]

\* index.js 341-365
getStockPriceByCodeResult(resOk, doc, code) ==
  LET priceText ==
        OrElse(trim(textOf(first(SelectSeq(doc, LAMBDA n : n.ctx = "no_today")))),
               trim(textOf(SelectSeq(doc, LAMBDA n : n.ctx = "now_value"))))
      nameText == OrElse(trim(textOf(first(CompanyAnchors(doc)))),
                         trim(textOf(CompanyH2s(doc))))
  IN IF ~resOk THEN FetchFailed
     ELSE [status |-> "ok", url |-> PriceUrl(code),
           name |-> IF nameText # <<>> THEN Str(nameText) ELSE Null,
           code |-> code,
           currentPrice |-> [raw |-> priceText, value |-> parseKoreanNumber(priceText)]]

(* ------------------------------ inputs -------------------------------- *)

NumChars == {"0", "1", ",", " ", "-", "a"}

RECURSIVE RenderList(_, _)
RECURSIVE Render(_)
\* The provider's serialisation of a JSON value.
Render(v) ==
  CASE v.t = "str" -> <<Q>> \o v.s \o <<Q>>
    [] v.t = "num" -> IntToText(v.n)
    [] v.t = "null" -> <<"null">>
    [] v.t = "bool" -> IF v.b THEN <<"true">> ELSE <<"false">>
    [] v.t = "arr" ->
         <<"[">> \o RenderList([i \in 1..Len(v.e) |-> Render(v.e[i])], <<",">>)
                 \o <<"]">>
    [] v.t = "obj" ->
         <<"{">> \o RenderList([i \in 1..Len(v.m) |->
                                  <<Q>> \o v.m[i][1] \o <<Q, ":">> \o Render(v.m[i][2])],
                               <<",">>)
                 \o <<"}">>

RenderList(parts, sep) ==
  IF parts = <<>> THEN <<>>
  ELSE Head(parts) \o (IF Len(parts) > 1 THEN sep \o RenderList(Tail(parts), sep)
                       ELSE <<>>)

EtfItem(name, code, nowVal) ==
  Obj(<<<< <<"itemname">>, name >>, << <<"itemcode">>, code >>,
        << <<"nowVal">>, nowVal >>, << <<"changeRate">>, Num(2) >>,
        << <<"quant">>, Num(10) >>>>)

\* Elements the provider's list may hold.
EtfElements ==
  { EtfItem(Str(<<"A">>), Str(<<"0", "6", "9", "5", "0", "0">>), Num(100)),
    EtfItem(Str(<<"B">>), Str(<<"1", "2", "3", "4", "5">>),
            Str(<<"1", "2", ",", "3", "4", "5">>)),
    EtfItem(Str(<<>>), Num(7), Str(<<"1", "0", "0">>)),
    Obj(<<<< <<"itemcode">>, Str(<<"A", "0", "0", "0", "0", "1", "0">>) >>,
          << <<"nav">>, Str(<<"}">>) >>>>),
    Null }

\* Values of the envelope's result member.
EtfResults ==
  {Null, Obj(<<>>), Obj(<<<< <<"etfItemList">>, Str(<<"A">>) >>>>)}
  \cup {Obj(<<<< <<"etfItemList">>, Arr(l) >>>>) : l \in Texts(EtfElements, MaxItems)}

\* The provider's JSON envelopes.
EtfEnvelopes ==
  {Obj(<<<< <<"result">>, r >>>>) : r \in {Null}}
  \cup {Obj(<<<< <<"resultCode">>, Str(<<c>>) >>, << <<"result">>, r >>>>) :
          c \in {"success", "error"}, r \in EtfResults}

\* Response bodies: the envelopes as text, and texts that are no JSON.
EtfBodies ==
  {Render(e) : e \in EtfEnvelopes}
  \cup { <<>>, <<"error">>, <<"{">>, <<"}">>, <<"}", "{">>,
         <<"{", Q, "resultCode", Q, ":", "}">>,
         <<"{", "NBSP", Q, "resultCode", Q, ":", Q, "success", Q, "}">> }

\* Padding around the JSON object (a JSONP wrapper, whitespace, stray braces).
EtfPrefixes == {<<>>, <<" ", "callback", "(">>, <<"{">>}
EtfSuffixes == {<<>>, <<")", ";", "\n">>, <<"}">>}

EtfQueries ==
  {[etfType |-> 0, targetColumn |-> "acc_amount", sortOrder |-> "desc"]}

\* Markup nodes and cells
Anchor(href, t) == [tag |-> "a", href |-> href, text |-> t]
Span(t) == [tag |-> "span", href |-> Undefined, text |-> t]
TextNode(t) == [tag |-> "text", href |-> Undefined, text |-> t]
Td(cls, nodes) == [cls |-> cls, nodes |-> nodes]
Tr(table, cells) == [table |-> table, cells |-> cells]
In(ctx, n) == [tag |-> n.tag, href |-> n.href, text |-> n.text, ctx |-> ctx]

Code005930 == <<"0", "0", "5", "9", "3", "0">>
Code035720 == <<"0", "3", "5", "7", "2", "0">>
DetailHref(digits) == Str(ItemMain \o CodeEq \o digits)

\* Rows of the theme page
ThemeRows ==
  { Tr({"type_1", "theme"},
       <<Td({"col_type1"},
            <<Anchor(Str(<<"/sise/sise_group_detail.naver?type=theme&">>
                         \o NoEq \o <<"2", "3", "7">>), <<" ", "AI", " ">>)>>),
         Td({"number", "col_type2"}, <<Span(<<"+", "1", ".", "5", "%">>)>>),
         Td({"ls", "col_type5"},
            <<Anchor(DetailHref(Code005930), <<"SS">>), Anchor(Undefined, <<" ">>)>>),
         Td({"ls", "col_type6"}, <<Anchor(DetailHref(Code035720), <<"KK">>)>>)>>),
    Tr({"type_1", "theme"},
       <<Td({"col_type1"}, <<Anchor(Undefined, <<"Bio">>)>>),
         Td({"number", "col_type2"}, <<>>)>>),
    Tr({"type_1", "theme"},
       <<Td({"col_type1"}, <<Anchor(Str(NoEq), <<"IDSP">>)>>),
         Td({"number", "col_type2"}, <<Span(<<"-", "1", "%">>)>>)>>),
    Tr({"type_1", "theme"}, <<Td({"blank_07"}, <<TextNode(<<"NBSP">>)>>)>>),
    Tr({"other"},
       <<Td({"col_type1"}, <<Anchor(Str(NoEq \o <<"9">>), <<"Car">>)>>)>>) }

\* Rows of the market-capitalisation page
MarketCapRows ==
  { Tr({"type_2"},
       <<Td({"no"}, <<TextNode(<<"1">>)>>),
         Td({}, <<Anchor(DetailHref(Code005930), <<"SS">>)>>),
         Td({"number"}, <<TextNode(<<" ", "7", "0", ",", "0", "0", "0", "\n">>)>>)>>),
    Tr({"type_2"},
       <<Td({"no"}, <<TextNode(<<"2">>)>>),
         Td({}, <<Anchor(Str(ItemMain \o CodeEq \o <<"1", "2", "3", "4", "5">>),
                         <<"HX">>)>>),
         Td({"number"}, <<TextNode(<<"N/A">>)>>)>>),
    Tr({"type_2"},
       <<Td({"no"}, <<TextNode(<<"3">>)>>),
         Td({}, <<Anchor(Undefined, <<"KK">>)>>),
         Td({"number"}, <<TextNode(<<",">>)>>)>>),
    Tr({"type_2"},
       <<Td({"no"}, <<>>),
         Td({}, <<Anchor(DetailHref(Code035720), <<" ", "NBSP">>)>>),
         Td({"number"}, <<TextNode(<<"1">>)>>)>>),
    Tr({"type_2"}, <<Td({"blank_08"}, <<TextNode(<<"NBSP">>)>>)>>),
    Tr({"type_1"},
       <<Td({"no"}, <<TextNode(<<"1">>)>>),
         Td({}, <<Anchor(DetailHref(Code035720), <<"ZZ">>)>>),
         Td({"number"}, <<TextNode(<<"5">>)>>)>>) }

\* Rows of the dividend page
DividendRows ==
  { Tr({"type_1", "tb_ty"},
       <<Td({"txt", "frst"}, <<Anchor(DetailHref(Code005930 \o <<"7">>), <<"Red">>)>>),
         Td({"num"}, <<TextNode(<<"1", "2", ",", "0", "0", "0">>)>>),
         Td({"num"}, <<TextNode(<<"2", "5", ".", "0", "3">>)>>),
         Td({"num"}, <<TextNode(<<"1", ",", "5", "0", "0">>)>>),
         Td({"num"}, <<TextNode(<<"1", "8", ".", "5", "7">>)>>),
         Td({"num"}, <<TextNode(<<"5", "0", ".", "1">>)>>)>>),
    Tr({"type_1", "tb_ty"},
       <<Td({"txt", "frst"}, <<Anchor(Undefined, <<"Blu">>)>>),
         Td({"num"}, <<TextNode(<<>>)>>),
         Td({"num"}, <<TextNode(<<"-">>)>>),
         Td({"num"}, <<TextNode(<<" ", ",", " ">>)>>)>>),
    Tr({"type_1", "tb_ty"},
       <<Td({"txt", "frst"}, <<Anchor(DetailHref(Code035720), <<"IDSP">>)>>),
         Td({"num"}, <<TextNode(<<"9">>)>>)>>),
    Tr({"type_1", "tb_ty"}, <<Td({"blank_07"}, <<TextNode(<<"NBSP">>)>>)>>),
    Tr({"type_1"},
       <<Td({"txt", "frst"}, <<Anchor(DetailHref(Code035720), <<"Grn">>)>>),
         Td({"num"}, <<TextNode(<<"7">>)>>)>>) }

\* Nodes of a search result page
SearchNodes ==
  { In("body", Anchor(DetailHref(Code005930), <<" ", "SS", " ">>)),
    In("body", Anchor(DetailHref(Code035720), <<>>)),
    In("body", Anchor(Str(ItemMain \o CodeEq \o <<"1", "2", "3", "4", "5">>),
                      <<"HX">>)),
    In("body", Anchor(Str(<<"/item/sise.naver?">> \o CodeEq \o Code035720),
                      <<"KK">>)),
    In("body", Anchor(Undefined, <<"home">>)),
    In("body", TextNode(<<"var", " ", "x", "=", "1", ";">>)),
    In("company", Anchor(Str(<<"#">>), <<"Title">>)),
    In("company", TextNode(<<" ", "Sub", " ">>)) }

SearchQueries == {<<"KO", " ", "A">>}

\* Nodes of an item page
PriceNodes ==
  { In("no_today", Span(<<"7", "0", ",", "0", "0", "0">>)),
    In("no_today", Span(<<" ">>)),
    In("now_value", Span(<<"6", "9">>)),
    In("company", Anchor(Str(<<"#">>), <<"SS">>)),
    In("company", TextNode(<<" ", "Co", " ">>)),
    In("body", TextNode(<<"x">>)) }

PriceCodes == {Code005930}

(* ------------------------------ actions ------------------------------- *)

Init ==
  /\ op = "idle"
  /\ arg = [none |-> TRUE]
  /\ ret = [status |-> "none"]
  /\ requests = <<>>

\* One application of parseKoreanNumber to a text.
applyParseKoreanNumber ==
  /\ op = "idle"
  /\ \E text \in Texts(NumChars, MaxTextLen) :
       /\ op' = "parseKoreanNumber"
       /\ arg' = [text |-> text]
       /\ ret' = [status |-> "ok", value |-> parseKoreanNumber(text)]
       /\ requests' = <<>>

\* One call of getEtfsByMarketCap: the request, then the response handled.
getEtfsByMarketCap ==
  /\ op = "idle"
  /\ \E limit \in 1..MaxLimit, q \in EtfQueries :
       \/ \E pre \in EtfPrefixes, body \in EtfBodies, suf \in EtfSuffixes :
            /\ arg' = [limit |-> limit, q |-> q, resOk |-> TRUE,
                       pre |-> pre, body |-> body, suf |-> suf]
            /\ ret' = getEtfsByMarketCapResult(TRUE, pre \o body \o suf, limit, q)
            /\ requests' = requests
                            \o axiosGet(apiUrl(q.etfType, q.targetColumn, q.sortOrder), TRUE)
       \/ /\ arg' = [limit |-> limit, q |-> q, resOk |-> FALSE,
                     pre |-> <<>>, body |-> <<>>, suf |-> <<>>]
          /\ ret' = getEtfsByMarketCapResult(FALSE, <<>>, limit, q)
          /\ requests' = requests
                          \o axiosGet(apiUrl(q.etfType, q.targetColumn, q.sortOrder), FALSE)
  /\ op' = "getEtfsByMarketCap"

\* One call of getThemesWithLeaders.
getThemesWithLeaders ==
  /\ op = "idle"
  /\ \E limit \in 1..MaxLimit :
       \/ \E rows \in Texts(ThemeRows, MaxRows) :
            /\ arg' = [limit |-> limit, resOk |-> TRUE, rows |-> rows]
            /\ ret' = getThemesWithLeadersResult(TRUE, rows, limit)
            /\ requests' = requests \o fetchHtml(ThemeUrl, TRUE)
       \/ /\ arg' = [limit |-> limit, resOk |-> FALSE, rows |-> <<>>]
          /\ ret' = getThemesWithLeadersResult(FALSE, <<>>, limit)
          /\ requests' = requests \o fetchHtml(ThemeUrl, FALSE)
  /\ op' = "getThemesWithLeaders"

\* One call of getMarketCapStocks.
getMarketCapStocks ==
  /\ op = "idle"
  /\ \E limit \in 1..MaxLimit, sosok \in {0, 1}, page \in {1} :
       /\ \/ \E rows \in Texts(MarketCapRows, MaxRows) :
               /\ arg' = [limit |-> limit, sosok |-> sosok, page |-> page,
                          resOk |-> TRUE, rows |-> rows]
               /\ ret' = getMarketCapStocksResult(TRUE, rows, sosok, page, limit)
               /\ requests' = requests \o fetchHtml(MarketCapUrl(sosok, page), TRUE)
          \/ /\ arg' = [limit |-> limit, sosok |-> sosok, page |-> page,
                        resOk |-> FALSE, rows |-> <<>>]
             /\ ret' = getMarketCapStocksResult(FALSE, <<>>, sosok, page, limit)
             /\ requests' = requests \o fetchHtml(MarketCapUrl(sosok, page), FALSE)
  /\ op' = "getMarketCapStocks"

\* One call of getDividendYieldStocks.
getDividendYieldStocks ==
  /\ op = "idle"
  /\ \E limit \in 1..MaxLimit, page \in {1, 2} :
       /\ \/ \E rows \in Texts(DividendRows, MaxRows) :
               /\ arg' = [limit |-> limit, page |-> page, resOk |-> TRUE,
                          rows |-> rows]
               /\ ret' = getDividendYieldStocksResult(TRUE, rows, page, limit)
               /\ requests' = requests \o fetchHtml(DividendUrl(page), TRUE)
          \/ /\ arg' = [limit |-> limit, page |-> page, resOk |-> FALSE,
                        rows |-> <<>>]
             /\ ret' = getDividendYieldStocksResult(FALSE, <<>>, page, limit)
             /\ requests' = requests \o fetchHtml(DividendUrl(page), FALSE)
  /\ op' = "getDividendYieldStocks"

\* One call of searchStockCodeByName.
searchStockCodeByName ==
  /\ op = "idle"
  /\ \E query \in SearchQueries :
       /\ \/ \E doc \in Texts(SearchNodes, MaxNodes) :
               /\ arg' = [query |-> query, resOk |-> TRUE, doc |-> doc]
               /\ ret' = searchStockCodeByNameResult(TRUE, doc, query)
               /\ requests' = requests \o fetchHtml(SearchUrl(query), TRUE)
          \/ /\ arg' = [query |-> query, resOk |-> FALSE, doc |-> <<>>]
             /\ ret' = searchStockCodeByNameResult(FALSE, <<>>, query)
             /\ requests' = requests \o fetchHtml(SearchUrl(query), FALSE)
  /\ op' = "searchStockCodeByName"

\* One call of getStockPriceByCode.
getStockPriceByCode ==
  /\ op = "idle"
  /\ \E code \in PriceCodes :
       /\ \/ \E doc \in Texts(PriceNodes, MaxNodes) :
               /\ arg' = [code |-> code, resOk |-> TRUE, doc |-> doc]
               /\ ret' = getStockPriceByCodeResult(TRUE, doc, code)
               /\ requests' = requests \o fetchHtml(PriceUrl(code), TRUE)
          \/ /\ arg' = [code |-> code, resOk |-> FALSE, doc |-> <<>>]
             /\ ret' = getStockPriceByCodeResult(FALSE, <<>>, code)
             /\ requests' = requests \o fetchHtml(PriceUrl(code), FALSE)
  /\ op' = "getStockPriceByCode"

\* The result is handed to the tool layer; nothing is kept for the next call.
complete ==
  /\ op # "idle"
  /\ op' = "idle"
  /\ arg' = [none |-> TRUE]
  /\ ret' = [status |-> "none"]
  /\ requests' = <<>>

Next ==
  \/ applyParseKoreanNumber
  \/ getEtfsByMarketCap
  \/ getThemesWithLeaders
  \/ getMarketCapStocks
  \/ getDividendYieldStocks
  \/ searchStockCodeByName
  \/ getStockPriceByCode
  \/ complete

Spec == Init /\ [][Next]_vars

(* ------------------------------ claims -------------------------------- *)

\* An optionally signed, non-empty run of decimal digits.
WellFormedNumber(s) ==
  LET body == IF s # <<>> /\ Head(s) \in {"-", "+"} THEN Tail(s) ELSE s
  IN body # <<>> /\ AllDigits(body)

\* A text without its thousands separators and whitespace.
Stripped(s) == RemoveAll(s, {","} \cup WhiteSpace)

\* What the normaliser is specified to yield for a raw text.
Normalized(raw) ==
  IF WellFormedNumber(Stripped(raw)) THEN Number(Stripped(raw)) ELSE Null

Smaller(a, b) == IF a < b THEN a ELSE b

\* items is src with some elements left out, the order kept
RECURSIVE IsSubsequence(_, _)
IsSubsequence(items, src) ==
  IF items = <<>> THEN TRUE
  ELSE IF src = <<>> THEN FALSE
  ELSE IF Head(items) = Head(src) /\ IsSubsequence(Tail(items), Tail(src)) THEN TRUE
  ELSE IsSubsequence(items, Tail(src))

\* The text a fund call decodes, and the list a successful call reads from it.
EtfDecoded == arg.pre \o arg.body \o arg.suf
EtfSource == EtfList(JSONparse(EtfJsonText(trim(EtfDecoded)).text).val).e

MarkupOps == {"getThemesWithLeaders", "getMarketCapStocks", "getDividendYieldStocks"}

\* The rows a markup listing call walks, and the record and name of a row.
SelectedRows ==
  CASE op = "getThemesWithLeaders" -> arg.rows
    [] op = "getMarketCapStocks" -> SelectSeq(arg.rows, LAMBDA r : "type_2" \in r.table)
    [] op = "getDividendYieldStocks" -> SelectSeq(arg.rows, LAMBDA r : "tb_ty" \in r.table)

RowRecord(row) ==
  CASE op = "getThemesWithLeaders" -> ThemeRecord(row)
    [] op = "getMarketCapStocks" -> MarketCapRecord(row)
    [] op = "getDividendYieldStocks" -> DividendRecord(row)

RowName(row) ==
  IF op = "getThemesWithLeaders" THEN RowRecord(row).themeName ELSE RowRecord(row).name

Returned == ret.status = "ok"

\* C1: parseKoreanNumber never throws, and returns null for every text that
\* is empty or, with commas and whitespace removed, is no well-formed number
\* (a text of commas and whitespace alone included).
C1_AbsentUnlessWellFormed ==
  op = "parseKoreanNumber" =>
    /\ Returned
    /\ (~WellFormedNumber(Stripped(arg.text)) => ret.value = Null)

\* C2: a listing extractor called with limit >= 1 returns at most limit
\* items, and they stand in the order of their source rows or list elements.
C2_LimitAndSourceOrder ==
  /\ (op = "getEtfsByMarketCap" /\ Returned =>
        /\ Len(ret.items) <= arg.limit
        /\ IsSubsequence(ret.items,
                         [i \in 1..Len(EtfSource) |-> EtfRecord(EtfSource[i])]))
  /\ (op \in MarkupOps /\ Returned =>
        /\ Len(ret.items) <= arg.limit
        /\ IsSubsequence(ret.items,
                         [i \in 1..Len(arg.rows) |-> RowRecord(arg.rows[i])]))

\* The limit cut the result short: two different items, more source rows.
C2_Witness ==
  /\ op \in MarkupOps \cup {"getEtfsByMarketCap"}
  /\ Returned
  /\ arg.limit >= 2
  /\ Len(ret.items) = arg.limit
  /\ ret.items[1] # ret.items[2]
  /\ IF op \in MarkupOps THEN Len(arg.rows) > arg.limit
     ELSE Len(EtfSource) >= arg.limit

\* C3: in the theme, market-cap and dividend extractors the rows whose name
\* is empty after trimming are skipped without using up the limit: the items
\* are the first min(limit, n) of the n rows with a name, in document order.
C3_BlankRowsSkipped ==
  op \in MarkupOps /\ Returned =>
    LET named == SelectSeq(SelectedRows, LAMBDA r : RowName(r) # <<>>)
    IN ret.items = [i \in 1..Smaller(arg.limit, Len(named)) |-> RowRecord(named[i])]

\* A blank row stands before the rows returned, and the limit is reached.
C3_Witness ==
  /\ op \in MarkupOps
  /\ Returned
  /\ Len(SelectedRows) = 3
  /\ RowName(SelectedRows[1]) = <<>>
  /\ Len(ret.items) = 2
  /\ arg.limit = 2

\* C4 as claimed: the fund extractor skips list elements with an empty or
\* missing name, so every returned record has a non-empty name, and the
\* items are the first limit named elements.
C4_EtfSkipsUnnamed ==
  op = "getEtfsByMarketCap" /\ Returned =>
    LET named == SelectSeq(EtfSource,
                           LAMBDA e : Prop(e, <<"itemname">>).t = "str"
                                      /\ Prop(e, <<"itemname">>).s # <<>>)
    IN /\ \A i \in 1..Len(ret.items) :
            ret.items[i].name.t = "str" /\ ret.items[i].name.s # <<>>
       /\ ret.items = [i \in 1..Smaller(arg.limit, Len(named)) |-> EtfRecord(named[i])]

\* C4 amended: the fund extractor returns the first min(limit, length)
\* elements of the list in order, whatever their names: a record's name is
\* its element's itemname as delivered, empty or missing included.
C4_EtfTakesFirstLimit ==
  op = "getEtfsByMarketCap" /\ Returned =>
    /\ Len(ret.items) = Smaller(arg.limit, Len(EtfSource))
    /\ \A i \in 1..Len(ret.items) :
         /\ ret.items[i] = EtfRecord(EtfSource[i])
         /\ ret.items[i].name = Prop(EtfSource[i], <<"itemname">>)

\* An element without a name is returned ahead of a named one.
C4_Witness ==
  /\ op = "getEtfsByMarketCap"
  /\ Returned
  /\ Len(EtfSource) = 2
  /\ Len(ret.items) = 1
  /\ ret.items[1].name = Undefined
  /\ Prop(EtfSource[2], <<"itemname">>) = Str(<<"A">>)

\* The raw/value pairs of a returned record.
MeasuredFields(r) ==
  {r[f] : f \in DOMAIN r \cap {"currentPrice", "nav", "volume", "dividend",
                               "tradingValueMillion", "marketCapHundredMillion"}}

ReturnedRecords ==
  IF ~Returned THEN {}
  ELSE IF op \in MarkupOps \cup {"getEtfsByMarketCap"}
       THEN {ret.items[i] : i \in 1..Len(ret.items)}
       ELSE IF op = "getStockPriceByCode" THEN {ret} ELSE {}

\* C5: in every record every extractor returns, the value of a numeric field
\* is what the normaliser yields for its raw text: the number when raw, with
\* separators and whitespace removed, is a well-formed number, else absent.
C5_ValueIsNormalizedRaw ==
  \A r \in ReturnedRecords : \A m \in MeasuredFields(r) : m.value = Normalized(m.raw)

\* Absent, or a text of exactly six decimal digits.
SixDigits(t) == Len(t) = 6 /\ AllDigits(t)
AbsentOrSixDigits(c) == c \in {Null, Undefined} \/ (c.t = "str" /\ SixDigits(c.s))

\* C6 as claimed: in every record of the fund, market-cap, dividend and
\* search extractors code is absent or six decimal digits, and a missing or
\* non-matching code never fails the call.
C6_CodeAbsentOrSixDigits ==
  /\ (op \in {"getEtfsByMarketCap", "getMarketCapStocks", "getDividendYieldStocks"}
        /\ Returned =>
        \A i \in 1..Len(ret.items) : AbsentOrSixDigits(ret.items[i].code))
  /\ (op = "searchStockCodeByName" /\ Returned /\ ret.result # Null =>
        SixDigits(ret.result.code))
  /\ (op \in {"getMarketCapStocks", "getDividendYieldStocks", "searchStockCodeByName"}
        /\ arg.resOk => Returned)

\* C6 amended: in every record of the market-cap, dividend and search
\* extractors code is absent or six decimal digits (in a search hit always
\* six digits), and a missing or non-matching code never fails the call; the
\* fund extractor's code is the element's itemcode as delivered, unchecked.
C6_MarkupCodeSixDigits ==
  /\ (op \in {"getMarketCapStocks", "getDividendYieldStocks"} /\ Returned =>
        \A i \in 1..Len(ret.items) :
          \/ ret.items[i].code = Null
          \/ ret.items[i].code.t = "str" /\ SixDigits(ret.items[i].code.s))
  /\ (op = "searchStockCodeByName" /\ Returned /\ ret.result # Null =>
        SixDigits(ret.result.code))
  /\ (op \in {"getMarketCapStocks", "getDividendYieldStocks", "searchStockCodeByName"}
        /\ arg.resOk => Returned)
  /\ (op = "getEtfsByMarketCap" /\ Returned =>
        \A i \in 1..Len(ret.items) :
          ret.items[i].code = Prop(EtfSource[i], <<"itemcode">>))

\* A row whose link holds five digits is returned with no code, beside a
\* row with a six-digit code.
C6_Witness ==
  /\ op = "getMarketCapStocks"
  /\ Returned
  /\ Len(ret.items) = 2
  /\ ret.items[1].code = Null
  /\ ret.items[1].name = <<"HX">>
  /\ ret.items[2].code = Str(Code005930)

\* The object text the fund call would parse: from the first "{" to the
\* last "}" of the trimmed response, when both exist.
HasBraces == \E i \in 1..Len(EtfDecoded) : EtfDecoded[i] = "{"
             /\ \E k \in 1..Len(EtfDecoded) : EtfDecoded[k] = "}"
BraceSlice ==
  LET d == trim(EtfDecoded)
      lo == Min({i \in 1..Len(d) : d[i] = "{"})
      hi == CHOOSE i \in 1..Len(d) : d[i] = "}" /\ \A k \in (i + 1)..Len(d) : d[k] # "}"
  IN SubSeq(d, lo, hi)

\* C7: when the fund call's response has no "{" or no "}", or the text from
\* the first "{" to the last "}" is no valid JSON, or the object's resultCode
\* is not "success", the call ends in an error: no envelope, no items.
C7_BadEnvelopeFails ==
  op = "getEtfsByMarketCap" /\ arg.resOk
    /\ (\/ ~HasBraces
        \/ ~JSONparse(BraceSlice).ok
        \/ Prop(JSONparse(BraceSlice).val, <<"resultCode">>) # Str(<<"success">>))
  => /\ ret.status = "error"
     /\ DOMAIN ret = {"status", "error"}

\* A valid envelope that reports an error and carries a non-empty list.
C7_Witness ==
  /\ op = "getEtfsByMarketCap"
  /\ arg.resOk
  /\ HasBraces
  /\ JSONparse(BraceSlice).ok
  /\ Prop(JSONparse(BraceSlice).val, <<"resultCode">>) = Str(<<"error">>)
  /\ EtfList(JSONparse(BraceSlice).val).t = "arr"
  /\ Len(EtfList(JSONparse(BraceSlice).val).e) = 2
  /\ ret.status = "error"

NoBrace(s) == \A i \in 1..Len(s) : s[i] \notin {"{", "}"}

\* The response body is one well-formed JSON object text.
WellFormedObjectText(s) ==
  s # <<>> /\ Head(s) = "{" /\ s[Len(s)] = "}" /\ JSONparse(s).ok

\* C8: for a well-formed JSON object text J and padding without braces, the
\* fund call parses from prefix + J + suffix the object J denotes and ends as
\* it does on J alone.
C8_PaddingRoundTrip ==
  op = "getEtfsByMarketCap" /\ arg.resOk /\ WellFormedObjectText(arg.body)
    /\ NoBrace(arg.pre) /\ NoBrace(arg.suf)
  => /\ EtfJsonText(trim(EtfDecoded)).found
     /\ JSONparse(EtfJsonText(trim(EtfDecoded)).text) = JSONparse(arg.body)
     /\ ret = getEtfsByMarketCapResult(TRUE, arg.body, arg.limit, arg.q)

\* A padded envelope with a nested object, from which items are returned.
C8_Witness ==
  /\ op = "getEtfsByMarketCap"
  /\ arg.resOk
  /\ WellFormedObjectText(arg.body)
  /\ arg.pre # <<>> /\ NoBrace(arg.pre)
  /\ arg.suf # <<>> /\ NoBrace(arg.suf)
  /\ Returned
  /\ Len(ret.items) = 2

\* The first anchor whose href holds the item link, as a selection.
FirstItemLink ==
  first(SelectSeq(arg.doc,
                  LAMBDA n : n.tag = "a"
                             /\ includes(hrefOrEmpty(<<n>>), ItemMain \o CodeEq)))

\* Stage 1 yields a code: that anchor's href holds code= and six digits.
Stage1Code == FirstItemLink # <<>> /\ matchCode(hrefOrEmpty(FirstItemLink)).found

\* C9 as claimed: when an anchor's link matches the item link, the search
\* returns the six-digit code of the first such anchor's link and, as name,
\* that anchor's text; the fallback scan alters neither.
C9_Stage1NameIsAnchorText ==
  op = "searchStockCodeByName" /\ arg.resOk /\ Stage1Code =>
    /\ Returned
    /\ ret.result # Null
    /\ ret.result.code = matchCode(hrefOrEmpty(FirstItemLink)).group
    /\ ret.result.name = trim(FirstItemLink[1].text)

\* C9 amended: when the first anchor whose link holds the item link has
\* code= and six digits in it, the search returns those six digits as code
\* and, as name, that anchor's trimmed text, or the query text when that
\* text is empty; the fallback scan alters neither.
C9_Stage1NameOrQuery ==
  op = "searchStockCodeByName" /\ arg.resOk /\ Stage1Code =>
    /\ Returned
    /\ ret.result # Null
    /\ ret.result.code = matchCode(hrefOrEmpty(FirstItemLink)).group
    /\ SixDigits(ret.result.code)
    /\ includes(FirstItemLink[1].href.s, CodeEq \o ret.result.code)
    /\ ret.result.name = IF trim(FirstItemLink[1].text) # <<>>
                         THEN trim(FirstItemLink[1].text)
                         ELSE arg.query

\* Stage 1 yields a code while the markup's first code= pattern is another
\* link's and a title stands on the page.
C9_Witness ==
  /\ op = "searchStockCodeByName"
  /\ arg.resOk
  /\ Stage1Code
  /\ matchCode(Html(arg.doc)).group # matchCode(hrefOrEmpty(FirstItemLink)).group
  /\ CompanyAnchors(arg.doc) # <<>>
  /\ ret.result = [name |-> <<"SS">>, code |-> Code005930]

\* The page title: the first company anchor's text, else the first h2's.
TitleName ==
  LET a == CompanyAnchors(arg.doc)
      h == CompanyH2s(arg.doc)
      fromA == IF a = <<>> THEN <<>> ELSE trim(a[1].text)
      fromH == IF h = <<>> THEN <<>> ELSE trim(h[1].text)
  IN IF fromA # <<>> THEN fromA ELSE fromH

NotFoundOutcome ==
  /\ Returned
  /\ ret.result = Null
  /\ ret.message # ""
  /\ ret.url = SearchUrl(arg.query)

\* C10: when stage 1 yields no code, the search returns the first code= and
\* six digits of the raw markup with the page title as name, or the query
\* text when there is no title; when the markup holds no such pattern it
\* returns, without throwing, result null with a message and the url.  That
\* outcome is returned exactly when neither stage finds a code.
C10_FallbackAndNotFound ==
  op = "searchStockCodeByName" /\ arg.resOk =>
    /\ (~Stage1Code /\ matchCode(Html(arg.doc)).found =>
          /\ Returned
          /\ ret.result = [name |-> IF TitleName # <<>> THEN TitleName ELSE arg.query,
                           code |-> matchCode(Html(arg.doc)).group])
    /\ (~Stage1Code /\ ~matchCode(Html(arg.doc)).found => NotFoundOutcome)
    /\ (NotFoundOutcome <=> ~Stage1Code /\ ~matchCode(Html(arg.doc)).found)

\* Stage 1 finds an item link without six digits; the fallback finds a code
\* in a later link and takes the name from the title.
C10_Witness ==
  /\ op = "searchStockCodeByName"
  /\ arg.resOk
  /\ FirstItemLink # <<>>
  /\ ~Stage1Code
  /\ ret.result = [name |-> <<"Sub">>, code |-> Code035720]

\* Neither stage finds a code although an item link stands on the page.
C10_WitnessNotFound ==
  /\ op = "searchStockCodeByName"
  /\ arg.resOk
  /\ FirstItemLink # <<>>
  /\ NotFoundOutcome

Extractors ==
  {"getEtfsByMarketCap", "getThemesWithLeaders", "getMarketCapStocks",
   "getDividendYieldStocks", "searchStockCodeByName", "getStockPriceByCode"}

\* C11: by the time a call of any of the six extractors has ended, exactly
\* one retrieval has been issued; a returned result echoes that retrieval's
\* URL in its url field; and when the response status is a failure the call
\* ends in an error, with no second retrieval and no result returned.
C11_OneRetrievalNoRetry ==
  op \in Extractors =>
    /\ Len(requests) = 1
    /\ (Returned => ret.url = requests[1])
    /\ (~arg.resOk => ~Returned /\ ret.status = "error" /\ "url" \notin DOMAIN ret)

\* A search whose response has a failure status: one retrieval, to the
\* search URL of the query, and the call has thrown.
C11_Witness ==
  /\ op = "searchStockCodeByName"
  /\ ~arg.resOk
  /\ requests = <<SearchUrl(arg.query)>>
  /\ ret = FetchFailed

====
